---- MODULE Spec2Model ----
(***************************************************************************)
(* Model of the WhatsApp expense bot (src/app.py): one Flask handler,      *)
(* whatsapp(), dispatching six text commands onto two SQLite tables        *)
(* (expenses, categories) through one process-wide connection and cursor.  *)
(*                                                                         *)
(* Text is modelled as a sequence of characters, each character a string.  *)
(* Hebrew letters are written by their names ("he", "vav", ...), the       *)
(* character U+00B2 (superscript two: str.isdigit() is True, float()       *)
(* rejects it) is written "sup2".                                          *)
(* Amounts are records [k, v]: k = "fin" with v the value in hundredths,   *)
(* k = "inf" with v the sign, k = "nan" (a Python float only), k = "null"  *)
(* (SQL NULL, what SQLite stores when a NaN is bound to a REAL column).    *)
(***************************************************************************)
EXTENDS Integers, Sequences, FiniteSets, TLC

\* ------------------------------------------------------------------ bounds
\* Highest expense id the AUTOINCREMENT counter may hand out.
MaxId == 2
\* Last tick of the clock.
MaxTime == 3
\* How many of the six default categories the bootstrap seeds.
NumDefaults == 2
\* Number of requests (one server thread each) in the concurrent specification.
MaxRequests == 2

\* ------------------------------------------------------- text primitives
WS == {" "}

AsciiDigits == {"0", "1", "2", "3", "4", "5", "6", "7", "8", "9"}

\* str.isdigit() of one character
IsDigitChar(ch) == ch \in AsciiDigits \cup {"sup2"}

DigitVal(ch) ==
    CASE ch = "0" -> 0 [] ch = "1" -> 1 [] ch = "2" -> 2 [] ch = "3" -> 3
      [] ch = "4" -> 4 [] ch = "5" -> 5 [] ch = "6" -> 6 [] ch = "7" -> 7
      [] ch = "8" -> 8 [] ch = "9" -> 9

\* str.lower() of one character (the upper-case letters the inputs use)
LowerChar(ch) ==
    CASE ch = "T" -> "t" [] ch = "I" -> "i" [] ch = "N" -> "n"
      [] ch = "F" -> "f" [] OTHER -> ch

Lower(s) == [i \in 1..Len(s) |-> LowerChar(s[i])]

RECURSIVE LStrip(_)
LStrip(s) == IF s # <<>> /\ Head(s) \in WS THEN LStrip(Tail(s)) ELSE s

RECURSIVE RStrip(_)
RStrip(s) ==
    IF s # <<>> /\ s[Len(s)] \in WS THEN RStrip(SubSeq(s, 1, Len(s) - 1)) ELSE s

\* str.strip()
Strip(s) == RStrip(LStrip(s))

\* str.startswith(p)
StartsWith(s, p) == Len(s) >= Len(p) /\ SubSeq(s, 1, Len(p)) = p

\* any(ch.isdigit() for ch in s)
HasDigit(s) == \E i \in 1..Len(s) : IsDigitChar(s[i])

\* str.split(): the maximal runs of non-whitespace characters
RECURSIVE SplitFrom(_, _, _)
SplitFrom(s, word, acc) ==
    IF s = <<>>
    THEN IF word = <<>> THEN acc ELSE Append(acc, word)
    ELSE IF Head(s) \in WS
         THEN SplitFrom(Tail(s), <<>>, IF word = <<>> THEN acc ELSE Append(acc, word))
         ELSE SplitFrom(Tail(s), Append(word, Head(s)), acc)

Split(s) == SplitFrom(s, <<>>, <<>>)

\* " ".join(parts)
RECURSIVE Join(_)
Join(parts) ==
    IF parts = <<>> THEN <<>>
    ELSE IF Len(parts) = 1 THEN parts[1]
    ELSE parts[1] \o <<" ">> \o Join(Tail(parts))

\* ----------------------------------------------------------------- float()
Fin(v) == [k |-> "fin", v |-> v]
Inf(sign) == [k |-> "inf", v |-> sign]
NaN == [k |-> "nan", v |-> 0]
Null == [k |-> "null", v |-> 0]

AllDigits(s) == \A i \in 1..Len(s) : s[i] \in AsciiDigits

RECURSIVE DigitsValue(_)
DigitsValue(s) ==
    IF s = <<>> THEN 0 ELSE 10 * DigitsValue(SubSeq(s, 1, Len(s) - 1)) + DigitVal(s[Len(s)])

\* Hundredths denoted by the digits after the point (the inputs carry at most two).
FracValue(s) ==
    IF Len(s) = 0 THEN 0
    ELSE IF Len(s) = 1 THEN 10 * DigitVal(s[1])
    ELSE 10 * DigitVal(s[1]) + DigitVal(s[2])

PointAt(s) == IF \E i \in 1..Len(s) : s[i] = "."
              THEN CHOOSE i \in 1..Len(s) : s[i] = "." /\ \A j \in 1..(i - 1) : s[j] # "."
              ELSE 0

\* An unsigned decimal literal: digits, digits.digits, digits. or .digits
IsUnsignedDecimal(s) ==
    LET p == PointAt(s) IN
    IF p = 0 THEN s # <<>> /\ AllDigits(s)
    ELSE LET ip == SubSeq(s, 1, p - 1)
             fp == SubSeq(s, p + 1, Len(s))
         IN AllDigits(ip) /\ AllDigits(fp) /\ Len(ip) + Len(fp) > 0

UnsignedValue(s) ==
    LET p == PointAt(s) IN
    IF p = 0 THEN 100 * DigitsValue(s)
    ELSE 100 * DigitsValue(SubSeq(s, 1, p - 1)) + FracValue(SubSeq(s, p + 1, Len(s)))

WordInf == <<"i", "n", "f">>
WordInfinity == <<"i", "n", "f", "i", "n", "i", "t", "y">>
WordNan == <<"n", "a", "n">>

\* float(tok): [ok |-> FALSE] stands for ValueError. The grammar covered is
\* [sign] (decimal | "inf" | "infinity" | "nan"), letters in any case.
ParseFloat(tok) ==
    LET low == Lower(tok)
        signed == low # <<>> /\ Head(low) \in {"+", "-"}
        sign == IF signed /\ Head(low) = "-" THEN -1 ELSE 1
        rest == IF signed THEN Tail(low) ELSE low
    IN  IF rest \in {WordInf, WordInfinity} THEN [ok |-> TRUE, val |-> Inf(sign)]
        ELSE IF rest = WordNan THEN [ok |-> TRUE, val |-> NaN]
        ELSE IF IsUnsignedDecimal(rest) THEN [ok |-> TRUE, val |-> Fin(sign * UnsignedValue(rest))]
        ELSE [ok |-> FALSE, val |-> Null]


\* ------------------------------------------------------ literals of the code
KwExpense == <<"he", "vav", "tsadi", "alef", "he">>
KwSummary == <<"samekh", "yod", "kaf", "vav", "memsofit">>
WordCategory == <<"qof", "tet", "gimel", "vav", "resh", "yod", "he">>
KwList == <<"resh", "shin", "yod", "mem", "tav", " ",
            "qof", "tet", "gimel", "vav", "resh", "yod", "vav", "tav">>
KwAddCategory == <<"he", "vav", "samekh", "pe", "tav", " ">> \o WordCategory
KwDeleteCategory == <<"mem", "het", "yod", "qof", "tav", " ">> \o WordCategory
KwDelete == <<"mem", "het", "yod", "qof", "he", " ">>

CatFood == <<"alef", "vav", "kaf", "lamed">>
CatTransport == <<"tav", "het", "bet", "vav", "resh", "he">>
CatFun == <<"bet", "yod", "dalet", "vav", "resh">>
CatGrocery == <<"mem", "kaf", "vav", "lamed", "tav">>
CatBills == <<"het", "shin", "bet", "vav", "nun", "vav", "tav">>
CatOther == <<"alef", "het", "resh">>

\* The seed list, cut to its first NumDefaults names.
default_categories ==
    SubSeq(<<CatFood, CatTransport, CatFun, CatGrocery, CatBills, CatOther>>, 1, NumDefaults)

\* ------------------------------------------------------------------ state
VARIABLES
    categories,   \* categories table: the names, in rowid order
    expenses,     \* expenses table: rows [id, name, amount, category, date], in rowid order
    nextId,       \* the id AUTOINCREMENT gives the next expense row
    now,          \* the clock (UTC), in ticks: SQLite's datetime('now')
    tz,           \* offset of the server's local time, in ticks: datetime.now() is now + tz
    body,         \* Body of the request handled last
    reply,        \* reply of the request handled last
    cur,          \* result set pending on the shared cursor c
    req           \* the requests of the concurrent specification, one thread each

vars == <<categories, expenses, nextId, now, tz, body, reply, cur, req>>

\* Ticks in one calendar month, and strftime('%Y-%m', t) of a tick.
TicksPerMonth == 2
Month(t) == t \div TicksPerMonth

TzOffsets == {0, 1}

\* -------------------------------------------------------------- statements
SeqToSet(s) == {s[i] : i \in 1..Len(s)}

\* What SQLite stores or compares when a Python float is bound: NaN becomes NULL.
SqlBind(a) == IF a.k = "nan" THEN Null ELSE a

\* SQL '=' on REAL values: never true of a NULL
SqlEq(a, b) == a.k # "null" /\ b.k # "null" /\ a = b

\* Mutant of UniqueViolation: a name column declared without UNIQUE.
NoUniqueConstraint(cats, name) == FALSE

\* categories.name is declared UNIQUE: the INSERT raises IntegrityError
UniqueViolation(cats, name) == name \in SeqToSet(cats)

\* SELECT name FROM categories
SelectCategoryNames(cats) == cats

\* Mutant of DeleteCategoryRows: a DELETE whose WHERE clause is lost.
DeleteEveryRow(cats, name) == <<>>

\* DELETE FROM categories WHERE name = ?
DeleteCategoryRows(cats, name) ==
    LET Keep(n) == n # name IN SelectSeq(cats, Keep)

\* INSERT INTO expenses (name, amount, category) VALUES (?, ?, ?)
InsertExpense(rows, id, name, amount, category, t) ==
    Append(rows, [id |-> id, name |-> name, amount |-> SqlBind(amount),
                  category |-> category, date |-> t])

\* WHERE name=? AND amount=?
Matching(rows, name, amount) ==
    {r \in SeqToSet(rows) : r.name = name /\ SqlEq(r.amount, SqlBind(amount))}

\* SELECT id, date ... ORDER BY date DESC LIMIT 1: the rows the statement may
\* return. Rows of equal date are in no specified order, so any of them may come first.
SelectLatestMatching(rows, name, amount) ==
    LET m == Matching(rows, name, amount)
    IN  {r \in m : \A o \in m : o.date <= r.date}

\* DELETE FROM expenses WHERE id=?
DeleteExpenseById(rows, id) ==
    LET Keep(r) == r.id # id IN SelectSeq(rows, Keep)

RECURSIVE FinSum(_)
FinSum(S) ==
    IF S = {} THEN 0
    ELSE LET r == CHOOSE x \in S : TRUE IN r.amount.v + FinSum(S \ {r})

\* SUM(amount) over a group: NULLs are skipped, a group of NULLs only sums to
\* NULL, and so does a sum that is not a number (+inf with -inf).
SumAmount(S) ==
    LET vals == {r \in S : r.amount.k # "null"}
        infs == {r.amount.v : r \in {x \in vals : x.amount.k = "inf"}}
    IN  IF vals = {} THEN Null
        ELSE IF Cardinality(infs) = 2 THEN Null
        ELSE IF Cardinality(infs) = 1 THEN Inf(CHOOSE v \in infs : TRUE)
        ELSE Fin(FinSum(vals))

\* SELECT category, SUM(amount) FROM expenses WHERE strftime('%Y-%m', date) = ?
\* GROUP BY category: the set of (category, total) rows
SumByCategory(rows, month) ==
    LET inMonth == {r \in SeqToSet(rows) : Month(r.date) = month}
    IN  {<<c, SumAmount({r \in inMonth : r.category = c})>> : c \in {r.category : r \in inMonth}}

\* ------------------------------------------------------------- classifier
get_candidate_labels(cats) == SelectCategoryNames(cats)

\* result["labels"][0]: the pipeline ranks the candidates it was given, so any of
\* them may come first; with no candidate it raises ValueError (the empty set).
zero_shot_classifier(text, candidate_labels) == SeqToSet(candidate_labels)

classify_expense(expense_name, cats) ==
    zero_shot_classifier(expense_name, get_candidate_labels(cats))

\* ------------------------------------------------------------------ replies
NoName == <<>>
Reply(kind) == [kind |-> kind, name |-> NoName, amount |-> Null, category |-> NoName,
                month |-> 0, totals |-> {}, list |-> <<>>]

help_message == Reply("help")

\* Uncaught exception in the view: Flask answers 500, no reply body.
ServerError == Reply("crash")

\* ------------------------------------------------------------------ inputs
Tea == <<"T", "e", "a">>
Ice == <<"I", "c", "e">>
Pets == <<"p", "e", "t", "s">>
Abc == <<"a", "b", "c">>
Num125 == <<"1", "2", ".", "5">>
Num5 == <<"5">>
Sup2 == <<"sup2">>
WordDelete == <<"mem", "het", "yod", "qof", "he">>

\* The request bodies of the expense-store specification.
ExpenseMsgs ==
    { Join(<<KwExpense, Tea, Num125>>),
      Join(<<KwExpense, Tea, WordNan>>),
      Join(<<KwExpense, Tea, WordInf>>),
      Join(<<WordDelete, Tea, Num125>>),
      KwSummary,
      KwList,
      KwAddCategory,
      KwDeleteCategory,
      Tea }

\* The request bodies of the category-store specification.
CategoryMsgs ==
    { Join(<<KwAddCategory, Pets>>),
      Join(<<KwAddCategory, CatFood>>),
      KwAddCategory,
      Join(<<KwDeleteCategory, Pets>>),
      Join(<<KwDeleteCategory, CatFood>>),
      Join(<<KwDeleteCategory, CatTransport>>),
      KwDeleteCategory,
      KwList,
      Join(<<KwExpense, Tea, Num125>>),
      Join(<<WordDelete, Tea>>),
      KwSummary,
      Tea }

\* The request bodies of the parsing specification: texts with and without a
\* keyword, with and without a digit, with spare blanks, with a glued keyword.
ParseMsgs ==
    { Join(<<KwExpense, Tea, Num125>>),
      Join(<<KwExpense, Ice, Tea, Num125>>),
      <<" ">> \o KwExpense \o <<" ", " ">> \o Tea \o <<" ", " ">> \o Num125 \o <<" ">>,
      KwExpense \o Join(<<Tea, Abc, Num5>>),
      Join(<<KwExpense, Num125>>),
      KwExpense,
      Join(<<KwExpense, Tea, Abc>>),
      Join(<<Tea, Num125>>),
      Join(<<Ice, Tea, Num125>>),
      Tea \o <<" ", " ">> \o Num125 \o <<" ">>,
      Num125,
      Join(<<Tea, Sup2>>),
      Join(<<Tea, WordInf>>),
      Tea,
      WordDelete,
      WordDelete \o Num5,
      Join(<<WordDelete, Tea, Num125>>),
      Join(<<WordDelete, Tea, Abc>>),
      KwSummary,
      KwList,
      KwAddCategory,
      KwDeleteCategory }

\* The request bodies of the concurrent specification.
ConcMsgs ==
    { Join(<<KwExpense, Tea, Num5>>),
      Join(<<WordDelete, Tea, Num5>>),
      Join(<<KwAddCategory, Pets>>),
      KwList }

Bodies == ExpenseMsgs \cup CategoryMsgs \cup ParseMsgs \cup ConcMsgs

\* ---------------------------------------------------------------- dispatch
NoKeyword(lower_msg) ==
    ~ (\/ StartsWith(lower_msg, KwExpense)
       \/ StartsWith(lower_msg, KwSummary)
       \/ StartsWith(lower_msg, KwList)
       \/ StartsWith(lower_msg, KwAddCategory)
       \/ StartsWith(lower_msg, KwDeleteCategory)
       \/ StartsWith(lower_msg, KwDelete))

\* lines 85-92 on the stripped text: no keyword and no digit
WantsHelp(incoming_msg) == NoKeyword(Lower(incoming_msg)) /\ ~ HasDigit(incoming_msg)

\* lines 81-96
ShowsHelp(raw) == WantsHelp(Strip(raw))

\* line 98 on the stripped text: a text without keyword becomes an expense entry
Fallback(incoming_msg) ==
    IF NoKeyword(Lower(incoming_msg))
    THEN KwExpense \o <<" ">> \o incoming_msg
    ELSE incoming_msg

\* Mutant of IncomingMsg: the keyword is put in front without the blank.
IncomingMsgGlued(raw) ==
    IF NoKeyword(Lower(Strip(raw))) THEN KwExpense \o Strip(raw) ELSE Strip(raw)

\* incoming_msg as the branches see it (lines 81, 98)
IncomingMsg(raw) == Fallback(Strip(raw))

\* the if/elif chain (lines 104-193)
Chain(lower_msg) ==
    IF StartsWith(lower_msg, KwExpense) THEN "expense"
    ELSE IF StartsWith(lower_msg, KwSummary) THEN "summary"
    ELSE IF StartsWith(lower_msg, KwList) THEN "list"
    ELSE IF StartsWith(lower_msg, KwAddCategory) THEN "add_category"
    ELSE IF StartsWith(lower_msg, KwDeleteCategory) THEN "delete_category"
    ELSE IF StartsWith(lower_msg, KwDelete) THEN "delete"
    ELSE "help"

\* the branch that runs (lines 85-96, 104-193)
BranchOf(raw) ==
    IF ShowsHelp(raw) THEN "help" ELSE Chain(Lower(IncomingMsg(raw)))

\* BranchOf, tabulated once for the bodies the specifications post.
BranchTable == [m \in Bodies |-> BranchOf(m)]

Branch(raw) == IF raw \in Bodies THEN BranchTable[raw] ELSE BranchOf(raw)

\* ----------------------------------------------------- sequential handlers
\* Each handler is one whole request, run alone: the cursor is drained when it
\* returns and the clock does not move meanwhile.
Served == UNCHANGED <<now, tz, cur, req>>

\* line 112: the last token is the amount
AmountToken(parts) == parts[Len(parts)]

\* Mutant of ExpenseName: the slice parts[1:] keeps the amount in the name.
ExpenseNameWithAmount(parts) == Join(SubSeq(parts, 2, Len(parts)))

\* lines 113, 181: the tokens after the keyword and before the amount
ExpenseName(parts) == Join(SubSeq(parts, 2, Len(parts) - 1))

\* lines 150, 163: the tokens after the two-word keyword
CategoryName(parts) == Join(SubSeq(parts, 3, Len(parts)))

Help(raw) ==
    /\ Branch(raw) = "help"
    /\ reply' = help_message
    /\ UNCHANGED <<categories, expenses, nextId>>
    /\ Served

ExpenseEntry(raw) ==
    /\ Branch(raw) = "expense"
    /\ LET parts == Split(IncomingMsg(raw)) IN
       IF Len(parts) < 3
       THEN /\ reply' = Reply("usage_expense")
            /\ UNCHANGED <<expenses, nextId>>
       ELSE LET f == ParseFloat(AmountToken(parts))
                name == ExpenseName(parts)
            IN  IF ~ f.ok \/ classify_expense(name, categories) = {}
                THEN /\ reply' = Reply("error_expense")
                     /\ UNCHANGED <<expenses, nextId>>
                ELSE \E category \in classify_expense(name, categories) :
                        /\ nextId <= MaxId
                        /\ expenses' = InsertExpense(expenses, nextId, name, f.val, category, now)
                        /\ nextId' = nextId + 1
                        /\ reply' = [Reply("ok_expense") EXCEPT
                                        !.name = name, !.amount = f.val, !.category = category]
    /\ UNCHANGED categories
    /\ Served

Summary(raw) ==
    /\ Branch(raw) = "summary"
    /\ LET month == Month(now + tz)
           rows == SumByCategory(expenses, month)
       IN  IF rows # {}
           THEN IF \E row \in rows : row[2].k = "null"
                THEN reply' = ServerError
                ELSE reply' = [Reply("summary") EXCEPT !.month = month, !.totals = rows]
           ELSE reply' = [Reply("no_expenses") EXCEPT !.month = month]
    /\ UNCHANGED <<categories, expenses, nextId>>
    /\ Served

ListCategories(raw) ==
    /\ Branch(raw) = "list"
    /\ LET rows == SelectCategoryNames(categories) IN
       IF rows # <<>>
       THEN reply' = [Reply("categories") EXCEPT !.list = rows]
       ELSE reply' = Reply("no_categories")
    /\ UNCHANGED <<categories, expenses, nextId>>
    /\ Served

AddCategory(raw) ==
    /\ Branch(raw) = "add_category"
    /\ LET parts == Split(IncomingMsg(raw)) IN
       IF Len(parts) < 3
       THEN /\ reply' = Reply("usage_add_category")
            /\ UNCHANGED categories
       ELSE LET new_category == CategoryName(parts) IN
            IF UniqueViolation(categories, new_category)
            THEN /\ reply' = [Reply("already_exists") EXCEPT !.name = new_category]
                 /\ UNCHANGED categories
            ELSE /\ categories' = Append(categories, new_category)
                 /\ reply' = [Reply("ok_add_category") EXCEPT !.name = new_category]
    /\ UNCHANGED <<expenses, nextId>>
    /\ Served

DeleteCategory(raw) ==
    /\ Branch(raw) = "delete_category"
    /\ LET parts == Split(IncomingMsg(raw)) IN
       IF Len(parts) < 3
       THEN /\ reply' = Reply("usage_delete_category")
            /\ UNCHANGED categories
       ELSE LET del_category == CategoryName(parts)
                rowcount == Len(categories) - Len(DeleteCategoryRows(categories, del_category))
            IN  /\ categories' = DeleteCategoryRows(categories, del_category)
                /\ IF rowcount > 0
                   THEN reply' = [Reply("ok_delete_category") EXCEPT !.name = del_category]
                   ELSE reply' = [Reply("category_not_found") EXCEPT !.name = del_category]
    /\ UNCHANGED <<expenses, nextId>>
    /\ Served

DeleteExpense(raw) ==
    /\ Branch(raw) = "delete"
    /\ LET parts == Split(IncomingMsg(raw)) IN
       IF Len(parts) < 3
       THEN /\ reply' = Reply("usage_delete")
            /\ UNCHANGED expenses
       ELSE LET f == ParseFloat(AmountToken(parts))
                name == ExpenseName(parts)
            IN  IF ~ f.ok
                THEN /\ reply' = Reply("bad_amount")
                     /\ UNCHANGED expenses
                ELSE IF SelectLatestMatching(expenses, name, f.val) = {}
                THEN /\ reply' = [Reply("expense_not_found") EXCEPT !.name = name, !.amount = f.val]
                     /\ UNCHANGED expenses
                ELSE \E row \in SelectLatestMatching(expenses, name, f.val) :
                        /\ expenses' = DeleteExpenseById(expenses, row.id)
                        /\ reply' = [Reply("ok_delete") EXCEPT !.name = name, !.amount = f.val]
    /\ UNCHANGED <<categories, nextId>>
    /\ Served

\* The view: the one branch Branch(raw) names runs.
whatsapp(raw) ==
    \/ Help(raw)
    \/ ExpenseEntry(raw)
    \/ Summary(raw)
    \/ ListCategories(raw)
    \/ AddCategory(raw)
    \/ DeleteCategory(raw)
    \/ DeleteExpense(raw)

\* A request with Body raw is served, by the branch that takes it.
Post(raw) ==
    \/ Help(raw) /\ body' = raw
    \/ ExpenseEntry(raw) /\ body' = raw
    \/ Summary(raw) /\ body' = raw
    \/ ListCategories(raw) /\ body' = raw
    \/ AddCategory(raw) /\ body' = raw
    \/ DeleteCategory(raw) /\ body' = raw
    \/ DeleteExpense(raw) /\ body' = raw

\* Time passes between requests.
Tick ==
    /\ now < MaxTime
    /\ now' = now + 1
    /\ UNCHANGED <<categories, expenses, nextId, tz, body, reply, cur, req>>


\* ----------------------------------------------------------- specifications
NoReply == Reply("none")

IdleRequest == [pc |-> "idle", body |-> <<>>, reply |-> NoReply, name |-> NoName,
                amount |-> Null, category |-> NoName, row |-> <<>>]

\* Lines 13-43 on a fresh database file: both tables created, the defaults seeded.
Init ==
    /\ categories = default_categories
    /\ expenses = <<>>
    /\ nextId = 1
    /\ now = 0
    /\ tz \in TzOffsets
    /\ body = <<>>
    /\ reply = NoReply
    /\ cur = <<>>
    /\ req = [r \in 1..MaxRequests |-> IdleRequest]

\* Expense store: bodies of ExpenseMsgs, as time passes.
Next == (\E m \in ExpenseMsgs : Post(m)) \/ Tick

Spec == Init /\ [][Next]_vars

\* Only the summary reads the local time: the other specifications run the
\* server in UTC.
InitUtc == Init /\ tz = 0

\* Category store: bodies of CategoryMsgs.
NextCategory == \E m \in CategoryMsgs : Post(m)

SpecCategory == InitUtc /\ [][NextCategory]_vars

\* Command parser: bodies of ParseMsgs.
NextParse == \E m \in ParseMsgs : Post(m)

SpecParse == InitUtc /\ [][NextParse]_vars

\* ------------------------------------------------- concurrent requests
\* The development server runs every request in a thread of its own; all of
\* them use the connection conn and the cursor c created at import time. A
\* step is one call on the cursor or the connection.
Requests == 1..MaxRequests

\* Column values of the rows a SELECT leaves on the cursor.
IntV(i) == [t |-> "int", i |-> i, s |-> <<>>]
TextV(s) == [t |-> "text", i |-> 0, s |-> s]

DigitChar(i) == CHOOSE ch \in AsciiDigits : DigitVal(ch) = i

\* The text of a value: a label that is a number is stored, and printed, as its digits.
AsText(v) == IF v.t = "text" THEN v.s ELSE <<DigitChar(v.i)>>

\* rows of SELECT name FROM categories
CategoryRows(cats) == [i \in 1..Len(cats) |-> <<TextV(cats[i])>>]

\* rows of SELECT id, date FROM expenses ... LIMIT 1
ExpenseRow(r) == <<IntV(r.id), IntV(r.date)>>

Finish(r, rep) == req' = [req EXCEPT ![r].pc = "done", ![r].reply = rep]

\* lines 81-113, 146-150, 172-181: the text is parsed, no statement is issued yet
Arrive(r, raw) ==
    /\ req[r].pc = "idle"
    /\ Branch(raw) \in {"expense", "list", "add_category", "delete"}
    /\ LET parts == Split(IncomingMsg(raw))
           f == ParseFloat(AmountToken(parts))
           started == [req[r] EXCEPT !.body = raw]
       IN  CASE Branch(raw) = "list" ->
                  req' = [req EXCEPT ![r] = [started EXCEPT !.pc = "list_select"]]
             [] Branch(raw) = "add_category" ->
                  IF Len(parts) < 3
                  THEN req' = [req EXCEPT ![r] = [started EXCEPT
                                  !.pc = "done", !.reply = Reply("usage_add_category")]]
                  ELSE req' = [req EXCEPT ![r] = [started EXCEPT
                                  !.pc = "add_insert", !.name = CategoryName(parts)]]
             [] Branch(raw) = "expense" ->
                  IF Len(parts) < 3
                  THEN req' = [req EXCEPT ![r] = [started EXCEPT
                                  !.pc = "done", !.reply = Reply("usage_expense")]]
                  ELSE IF ~ f.ok
                  THEN req' = [req EXCEPT ![r] = [started EXCEPT
                                  !.pc = "done", !.reply = Reply("error_expense")]]
                  ELSE req' = [req EXCEPT ![r] = [started EXCEPT
                                  !.pc = "entry_select", !.amount = f.val,
                                  !.name = ExpenseName(parts)]]
             [] Branch(raw) = "delete" ->
                  IF Len(parts) < 3
                  THEN req' = [req EXCEPT ![r] = [started EXCEPT
                                  !.pc = "done", !.reply = Reply("usage_delete")]]
                  ELSE IF ~ f.ok
                  THEN req' = [req EXCEPT ![r] = [started EXCEPT
                                  !.pc = "done", !.reply = Reply("bad_amount")]]
                  ELSE req' = [req EXCEPT ![r] = [started EXCEPT
                                  !.pc = "delete_select", !.amount = f.val,
                                  !.name = ExpenseName(parts)]]
    /\ UNCHANGED <<categories, expenses, nextId, now, tz, body, reply, cur>>

\* line 57 or 137: c.execute("SELECT name FROM categories")
SelectNames(r) ==
    /\ req[r].pc \in {"entry_select", "list_select"}
    /\ cur' = CategoryRows(SelectCategoryNames(categories))
    /\ req' = [req EXCEPT ![r].pc = IF req[r].pc = "entry_select"
                                    THEN "entry_fetch" ELSE "list_fetch"]
    /\ UNCHANGED <<categories, expenses, nextId, now, tz, body, reply>>

\* lines 58-66: c.fetchall() takes whatever the cursor holds; then the classifier
EntryFetch(r) ==
    /\ req[r].pc = "entry_fetch"
    /\ cur' = <<>>
    /\ LET candidate_labels == [i \in 1..Len(cur) |-> AsText(cur[i][1])] IN
       IF zero_shot_classifier(req[r].name, candidate_labels) = {}
       THEN Finish(r, Reply("error_expense"))
       ELSE \E category \in zero_shot_classifier(req[r].name, candidate_labels) :
                req' = [req EXCEPT ![r].pc = "entry_insert", ![r].category = category]
    /\ UNCHANGED <<categories, expenses, nextId, now, tz, body, reply>>

\* lines 115-118: c.execute('INSERT INTO expenses ...')
EntryInsert(r) ==
    /\ req[r].pc = "entry_insert"
    /\ nextId <= MaxId
    /\ expenses' = InsertExpense(expenses, nextId, req[r].name, req[r].amount,
                                 req[r].category, now)
    /\ nextId' = nextId + 1
    /\ cur' = <<>>
    /\ req' = [req EXCEPT ![r].pc = "entry_commit"]
    /\ UNCHANGED <<categories, now, tz, body, reply>>

\* lines 138-143: rows = c.fetchall(); "\n".join raises TypeError on a number
ListFetch(r) ==
    /\ req[r].pc = "list_fetch"
    /\ cur' = <<>>
    /\ IF cur # <<>>
       THEN IF \E i \in 1..Len(cur) : cur[i][1].t # "text"
            THEN Finish(r, ServerError)
            ELSE Finish(r, [Reply("categories") EXCEPT
                               !.list = [i \in 1..Len(cur) |-> cur[i][1].s]])
       ELSE Finish(r, Reply("no_categories"))
    /\ UNCHANGED <<categories, expenses, nextId, now, tz, body, reply>>

\* line 152: c.execute("INSERT INTO categories (name) VALUES (?)"), lines 155-156
AddInsert(r) ==
    /\ req[r].pc = "add_insert"
    /\ cur' = <<>>
    /\ IF UniqueViolation(categories, req[r].name)
       THEN /\ Finish(r, [Reply("already_exists") EXCEPT !.name = req[r].name])
            /\ UNCHANGED categories
       ELSE /\ categories' = Append(categories, req[r].name)
            /\ req' = [req EXCEPT ![r].pc = "add_commit"]
    /\ UNCHANGED <<expenses, nextId, now, tz, body, reply>>

\* lines 182-183: c.execute("SELECT id, date FROM expenses WHERE ... LIMIT 1")
DeleteSelect(r) ==
    /\ req[r].pc = "delete_select"
    /\ IF SelectLatestMatching(expenses, req[r].name, req[r].amount) = {}
       THEN cur' = <<>>
       ELSE \E row \in SelectLatestMatching(expenses, req[r].name, req[r].amount) :
                cur' = <<ExpenseRow(row)>>
    /\ req' = [req EXCEPT ![r].pc = "delete_fetch"]
    /\ UNCHANGED <<categories, expenses, nextId, now, tz, body, reply>>

\* lines 184-186, 190-191: row = c.fetchone() takes the next row the cursor holds
DeleteFetch(r) ==
    /\ req[r].pc = "delete_fetch"
    /\ IF cur = <<>>
       THEN /\ cur' = cur
            /\ Finish(r, [Reply("expense_not_found") EXCEPT
                             !.name = req[r].name, !.amount = req[r].amount])
       ELSE /\ cur' = Tail(cur)
            /\ req' = [req EXCEPT ![r].pc = "delete_delete", ![r].row = Head(cur)]
    /\ UNCHANGED <<categories, expenses, nextId, now, tz, body, reply>>

\* line 187: c.execute("DELETE FROM expenses WHERE id=?", (row[0],)); an id that
\* is no number equals the id of no row
DeleteById(r) ==
    /\ req[r].pc = "delete_delete"
    /\ LET expense_id == req[r].row[1] IN
       expenses' = IF expense_id.t = "int"
                   THEN DeleteExpenseById(expenses, expense_id.i)
                   ELSE expenses
    /\ cur' = <<>>
    /\ req' = [req EXCEPT ![r].pc = "delete_commit"]
    /\ UNCHANGED <<categories, nextId, now, tz, body, reply>>

\* conn.commit() and the confirmation (lines 119-120, 153-154, 188-189)
Commit(r) ==
    /\ req[r].pc \in {"entry_commit", "add_commit", "delete_commit"}
    /\ Finish(r, [Reply(CASE req[r].pc = "entry_commit" -> "ok_expense"
                          [] req[r].pc = "add_commit" -> "ok_add_category"
                          [] req[r].pc = "delete_commit" -> "ok_delete")
                  EXCEPT !.name = req[r].name, !.amount = req[r].amount,
                         !.category = req[r].category])
    /\ UNCHANGED <<categories, expenses, nextId, now, tz, body, reply, cur>>

NextConc ==
    \/ \E r \in Requests : \E m \in ConcMsgs : Arrive(r, m)
    \/ \E r \in Requests : SelectNames(r)
    \/ \E r \in Requests : EntryFetch(r)
    \/ \E r \in Requests : EntryInsert(r)
    \/ \E r \in Requests : ListFetch(r)
    \/ \E r \in Requests : AddInsert(r)
    \/ \E r \in Requests : DeleteSelect(r)
    \/ \E r \in Requests : DeleteFetch(r)
    \/ \E r \in Requests : DeleteById(r)
    \/ \E r \in Requests : Commit(r)

SpecConc == InitUtc /\ [][NextConc]_vars


\* ------------------------------------------------------------------ claims
Rows == SeqToSet(expenses)

Count(table, name) == Cardinality({i \in 1..Len(table) : table[i] = name})

\* x was created after every other row of M: later timestamp, or the same
\* timestamp and a higher identifier
MostRecent(x, M) ==
    \A o \in M : o.date < x.date \/ (o.date = x.date /\ o.id <= x.id)

SummaryIncludesExpense ==
    Branch(body) = "summary" =>
        /\ reply.kind \in {"summary", "no_expenses"}
        /\ \A r \in Rows : Month(r.date) = reply.month =>
              \E t \in reply.totals :
                 /\ t[1] = r.category
                 /\ r.amount.k # "null"
                 /\ t[2].k # "null"
                 /\ t[2] = SumAmount({o \in Rows : Month(o.date) = reply.month
                                                   /\ o.category = r.category})

\* C3: every request ends with a reply body; none ends in an uncaught failure.
AlwaysReplies == reply.kind # "crash"

\* C4: the amount of every stored expense is a finite number.
AmountsFinite == \A r \in Rows : r.amount.k = "fin"

\* C5: add-category with a name not in the store succeeds and adds exactly one
\* row; with a name already in the store (as right after a successful add) it
\* replies AlreadyExists and leaves the store as it was; names stay unique.
AddCategoryUnique ==
    [][ /\ \A n \in SeqToSet(categories') : Count(categories', n) = 1
        /\ (Branch(body') = "add_category" /\ now' = now) =>
              LET tokens == Split(body')
                  n == Join(SubSeq(tokens, 3, Len(tokens)))
              IN  Len(tokens) >= 3 =>
                    IF n \notin SeqToSet(categories)
                    THEN /\ reply'.kind = "ok_add_category"
                         /\ Len(categories') = Len(categories) + 1
                         /\ SeqToSet(categories') = SeqToSet(categories) \cup {n}
                    ELSE /\ reply'.kind = "already_exists"
                         /\ categories' = categories ]_vars

\* C5 witness: the second add of a new name was refused and the name is stored once.
DuplicateAddRejected ==
    /\ body = Join(<<KwAddCategory, Pets>>)
    /\ reply.kind = "already_exists"
    /\ reply.name = Pets
    /\ Count(categories, Pets) = 1
    /\ Len(categories) = Len(default_categories) + 1

\* C6: a text that starts with no keyword gets the help reply and changes no
\* store when it holds no digit; when it holds a digit, the step is the one the
\* handler takes on the same text with the expense-entry keyword put in front.
FallbackIsExpenseEntry ==
    [][ (NoKeyword(Lower(Strip(body'))) /\ now' = now) =>
            IF ~ HasDigit(body')
            THEN /\ reply' = help_message
                 /\ UNCHANGED <<categories, expenses, nextId>>
            ELSE whatsapp(KwExpense \o <<" ">> \o body') ]_vars

\* C6 witness: a text without keyword was stored as an expense.
ImplicitEntryStored ==
    /\ body = Join(<<Ice, Tea, Num125>>)
    /\ reply.kind = "ok_expense"
    /\ reply.name = Join(<<Ice, Tea>>)
    /\ expenses # <<>>
    /\ expenses[Len(expenses)].name = Join(<<Ice, Tea>>)

\* The decimal numbers among the tokens of the inputs, with their values in hundredths.
DecimalTokens == {Num125, Num5}
DecimalValue(tok) == IF tok = Num125 THEN 1250 ELSE 500

\* C7: an expense-entry command of fewer than three tokens gets the usage reply
\* and stores nothing; one of three or more tokens whose last token is a decimal
\* number stores one expense, whose amount is that number and whose name is the
\* tokens between the first and the last joined by single blanks (the classifier
\* needs a category to choose: the category store is not empty).
ExpenseEntryTokens ==
    [][ (StartsWith(Lower(Strip(body')), KwExpense) /\ now' = now) =>
        LET tokens == Split(body')
            n == Len(tokens)
        IN  IF n < 3
            THEN /\ reply'.kind = "usage_expense"
                 /\ UNCHANGED <<expenses, nextId>>
            ELSE (tokens[n] \in DecimalTokens /\ categories # <<>>) =>
                    /\ Len(expenses') = Len(expenses) + 1
                    /\ SubSeq(expenses', 1, Len(expenses)) = expenses
                    /\ expenses'[Len(expenses')].name = Join(SubSeq(tokens, 2, n - 1))
                    /\ expenses'[Len(expenses')].amount = Fin(DecimalValue(tokens[n]))
                    /\ reply'.kind = "ok_expense" ]_vars

\* C7 witness: a four-token command stored its two-word name and its amount.
MultiWordNameStored ==
    /\ body = Join(<<KwExpense, Ice, Tea, Num125>>)
    /\ reply.kind = "ok_expense"
    /\ expenses # <<>>
    /\ expenses[Len(expenses)].name = <<"I", "c", "e", " ", "T", "e", "a">>
    /\ expenses[Len(expenses)].amount = Fin(1250)

\* C8: delete-category with a name that is not in the store replies NotFound
\* and leaves the category table and the expense table as they were.
DeleteMissingCategory ==
    [][ (Branch(body') = "delete_category" /\ now' = now) =>
        LET tokens == Split(body')
            n == Join(SubSeq(tokens, 3, Len(tokens)))
        IN  (Len(tokens) >= 3 /\ n \notin SeqToSet(categories)) =>
                /\ reply'.kind = "category_not_found"
                /\ categories' = categories
                /\ expenses' = expenses ]_vars

\* C8 witness: a delete of an absent name was answered NotFound, both tables populated.
MissingCategoryReported ==
    /\ body = Join(<<KwDeleteCategory, Pets>>)
    /\ reply.kind = "category_not_found"
    /\ Pets \notin SeqToSet(categories)
    /\ categories # <<>>
    /\ expenses # <<>>

\* The requests whose INSERT of category n has run, and those it succeeded for.
AddRan(n) ==
    {r \in Requests : /\ req[r].name = n
                      /\ \/ req[r].pc = "add_commit"
                         \/ /\ req[r].pc = "done"
                            /\ req[r].reply.kind \in {"ok_add_category", "already_exists"}}
AddWon(n) ==
    {r \in AddRan(n) : req[r].pc = "add_commit" \/ req[r].reply.kind = "ok_add_category"}

\* C9: of the requests that add one name the store did not hold, whatever the
\* interleaving, exactly one succeeds, every other one replies AlreadyExists,
\* and the store holds exactly one row of that name.
OneAddWins ==
    \A n \in {req[r].name : r \in Requests} :
        (n \notin SeqToSet(default_categories) /\ AddRan(n) # {}) =>
            /\ Cardinality(AddWon(n)) = 1
            /\ \A r \in AddRan(n) \ AddWon(n) : req[r].reply.kind = "already_exists"
            /\ Count(categories, n) = 1

\* C9 witness: one request has inserted and not yet committed, the other was refused.
RaceResolved ==
    \E r1, r2 \in Requests :
        /\ r1 # r2
        /\ req[r1].name = Pets /\ req[r1].pc = "add_commit"
        /\ req[r2].name = Pets /\ req[r2].pc = "done"
        /\ req[r2].reply.kind = "already_exists"

\* C10: under every interleaving, the DELETE of a delete-expense request
\* removes a row whose name and amount are the request's, so that 'deleted' is
\* replied only when such a row was removed.
DeleteOwnLookup ==
    [][ \A r \in Requests :
          (req[r].pc = "delete_delete" /\ req'[r].pc = "delete_commit") =>
              \E x \in Matching(expenses, req[r].name, req[r].amount) :
                  expenses' = DeleteExpenseById(expenses, x.id) ]_vars

====
